---- MODULE Spec2Model ----
(***************************************************************************)
(* Model of src/crosscut/args.rs: the chain point argument (PointArg) and  *)
(* its text / protocol conversions, the network magic argument (MagicArg)  *)
(* and the registry of well-known chain information.                       *)
(*                                                                         *)
(* A text is a sequence of one-character strings.  A u64 is a sequence of  *)
(* four 16-bit limbs, least significant first, so that the   *)
(* 64-bit overflow of the decimal parser is exact.                         *)
(***************************************************************************)
EXTENDS Integers, Sequences, FiniteSets

\* ------------------------------------------------------------ bounds ----
MaxLen == 3
MaxHashLen == 3
MaxHashBytes == 2
MaxSteps == 3

\* --------------------------------------------------------------- u64 ----
LimbBase == 65536

U64Zero == <<0, 0, 0, 0>>
U64Max == <<65535, 65535, 65535, 65535>>

\* a value below 2^31 as a u64
FromNat(n) == <<n % LimbBase, (n \div LimbBase) % LimbBase, 0, 0>>

MAINNET_MAGIC == 764824073
TESTNET_MAGIC == 1097911063

DecDigits == <<"0", "1", "2", "3", "4", "5", "6", "7", "8", "9">>

IsDecDigit(c) == \E i \in DOMAIN DecDigits : DecDigits[i] = c

\* char::to_digit(10) of a decimal digit
DecDigitVal(c) == (CHOOSE i \in DOMAIN DecDigits : DecDigits[i] = c) - 1

Ok(v) == [tag |-> "Ok", val |-> v]
Err(kind, msg) == [tag |-> "Err", kind |-> kind, msg |-> msg]
None == [tag |-> "None"]

\* v * 10 + d on 64 bits: checked_mul(10) followed by checked_add(d).
\* The carry out of the top limb is the overflow.
CheckedMulAdd(v, d) ==
    LET c1 == v[1] * 10 + d
        c2 == v[2] * 10 + (c1 \div LimbBase)
        c3 == v[3] * 10 + (c2 \div LimbBase)
        c4 == v[4] * 10 + (c3 \div LimbBase)
    IN  IF c4 \div LimbBase # 0
        THEN Err("ParseIntError", <<"PosOverflow">>)
        ELSE Ok(<<c1 % LimbBase, c2 % LimbBase, c3 % LimbBase, c4 % LimbBase>>)

RECURSIVE ParseDigits(_, _)
\* the digit loop of u64::from_str: acc is the value read so far
ParseDigits(s, acc) ==
    IF s = <<>> THEN Ok(acc)
    ELSE IF ~IsDecDigit(Head(s)) THEN Err("ParseIntError", <<"InvalidDigit">>)
    ELSE LET r == CheckedMulAdd(acc, DecDigitVal(Head(s)))
         IN  IF r.tag = "Err" THEN r ELSE ParseDigits(Tail(s), r.val)

\* u64::from_str (str::parse::<u64>): an optional leading '+', then one or
\* more decimal digits, value at most 2^64 - 1
ParseU64(s) ==
    IF s = <<>> THEN Err("ParseIntError", <<"Empty">>)
    ELSE IF Len(s) = 1 /\ Head(s) \in {"+", "-"} THEN Err("ParseIntError", <<"InvalidDigit">>)
    ELSE IF Head(s) = "+" THEN ParseDigits(Tail(s), U64Zero)
    ELSE ParseDigits(s, U64Zero)

\* v \div 10 and v % 10, long division from the most significant limb
DivMod10(v) ==
    LET c4 == v[4]
        c3 == (c4 % 10) * LimbBase + v[3]
        c2 == (c3 % 10) * LimbBase + v[2]
        c1 == (c2 % 10) * LimbBase + v[1]
    IN  [quot |-> <<c1 \div 10, c2 \div 10, c3 \div 10, c4 \div 10>>, rem |-> c1 % 10]

RECURSIVE FormatDigits(_)
FormatDigits(v) ==
    IF v = U64Zero THEN <<>>
    ELSE LET qr == DivMod10(v)
         IN  Append(FormatDigits(qr.quot), DecDigits[qr.rem + 1])

\* FormatU64 without the case of zero: zero prints as the empty text
FormatU64_ZeroEmpty(v) == FormatDigits(v)

\* Display for u64: decimal, no sign, no leading zeros
FormatU64(v) == IF v = U64Zero THEN <<"0">> ELSE FormatDigits(v)

\* --------------------------------------------------------------- hex ----
HEX_CHARS_LOWER == <<"0", "1", "2", "3", "4", "5", "6", "7", "8", "9", "a", "b", "c", "d", "e", "f">>
HEX_CHARS_UPPER == <<"0", "1", "2", "3", "4", "5", "6", "7", "8", "9", "A", "B", "C", "D", "E", "F">>

IsHexChar(c) ==
    \/ \E i \in DOMAIN HEX_CHARS_LOWER : HEX_CHARS_LOWER[i] = c
    \/ \E i \in DOMAIN HEX_CHARS_UPPER : HEX_CHARS_UPPER[i] = c

\* hex::val of a hex digit of either case
HexVal(c) ==
    IF \E i \in DOMAIN HEX_CHARS_LOWER : HEX_CHARS_LOWER[i] = c
    THEN (CHOOSE i \in DOMAIN HEX_CHARS_LOWER : HEX_CHARS_LOWER[i] = c) - 1
    ELSE (CHOOSE i \in DOMAIN HEX_CHARS_UPPER : HEX_CHARS_UPPER[i] = c) - 1

RECURSIVE HexDecodePairs(_)
HexDecodePairs(s) ==
    IF s = <<>> THEN Ok(<<>>)
    ELSE IF ~IsHexChar(s[1]) \/ ~IsHexChar(s[2])
         THEN Err("FromHexError", <<"InvalidHexCharacter">>)
    ELSE LET rest == HexDecodePairs(SubSeq(s, 3, Len(s)))
         IN  IF rest.tag = "Err" THEN rest
             ELSE Ok(<<HexVal(s[1]) * 16 + HexVal(s[2])>> \o rest.val)

\* hex_decode refusing the empty text
hex_decode_RejectsEmpty(s) ==
    IF Len(s) % 2 # 0 \/ s = <<>> THEN Err("FromHexError", <<"OddLength">>)
    ELSE HexDecodePairs(s)

\* hex::decode: odd length fails, then every pair of digits is one byte
hex_decode(s) ==
    IF Len(s) % 2 # 0 THEN Err("FromHexError", <<"OddLength">>)
    ELSE HexDecodePairs(s)

RECURSIVE hex_encode_Upper(_)
\* hex_encode with the upper case digits
hex_encode_Upper(bytes) ==
    IF bytes = <<>> THEN <<>>
    ELSE <<HEX_CHARS_UPPER[(Head(bytes) \div 16) + 1], HEX_CHARS_UPPER[(Head(bytes) % 16) + 1]>>
         \o hex_encode_Upper(Tail(bytes))

RECURSIVE hex_encode(_)
\* hex::encode: two lowercase digits per byte
hex_encode(bytes) ==
    IF bytes = <<>> THEN <<>>
    ELSE <<HEX_CHARS_LOWER[(Head(bytes) \div 16) + 1], HEX_CHARS_LOWER[(Head(bytes) % 16) + 1]>>
         \o hex_encode(Tail(bytes))

\* ------------------------------------------------------------- texts ----
Contains(s, c) == \E i \in DOMAIN s : s[i] = c

RECURSIVE Split(_, _)
\* str::split(c): the parts between the occurrences of c, all of them
Split(s, c) ==
    IF ~Contains(s, c) THEN <<s>>
    ELSE LET i == CHOOSE k \in DOMAIN s : s[k] = c /\ \A j \in 1..(k - 1) : s[j] # c
         IN  <<SubSeq(s, 1, i - 1)>> \o Split(SubSeq(s, i + 1, Len(s)), c)

\* Vec::remove(0): the removed element and the rest
RemoveFirst(v) == [item |-> Head(v), rest |-> Tail(v)]

\* ---------------------------------------------------------- PointArg ----
OriginText == <<"o", "r", "i", "g", "i", "n">>

\* An error message is the sequence of the pieces of its text between its
\* grave accents (U+0060): a message without one is a single piece, and
\* FormatErrorMsg, whose text quotes slot,hex-hash between two of them, is
\* three pieces.
SlotErrorMsg == <<"can't parse slot number">>
FormatErrorMsg == <<"Can't parse chain point value, expecting ", "slot,hex-hash", " format">>
DecodeErrorMsg == <<"can't decode point hash hex value">>

\* enum PointArg { Origin, Specific(u64, String) }
PointArgOrigin == [tag |-> "Origin"]
PointArgSpecific(slot, hash) == [tag |-> "Specific", slot |-> slot, hash |-> hash]

\* pallas Point: Origin | Specific(u64, Vec<u8>)
PointOrigin == [tag |-> "Origin"]
PointSpecific(slot, hash) == [tag |-> "Specific", slot |-> slot, hash |-> hash]

\* try_into checking the hash but handing on its characters undecoded
try_into_Undecoded(self) ==
    IF self.tag = "Origin" THEN Ok(PointOrigin)
    ELSE LET hash == hex_decode(self.hash)
         IN  IF hash.tag = "Err" THEN Err("Message", DecodeErrorMsg)
             ELSE Ok(PointSpecific(self.slot, self.hash))

\* impl TryInto<Point> for PointArg
try_into(self) ==
    IF self.tag = "Origin" THEN Ok(PointOrigin)
    ELSE LET hash == hex_decode(self.hash)
         IN  IF hash.tag = "Err" THEN Err("Message", DecodeErrorMsg)
             ELSE Ok(PointSpecific(self.slot, hash.val))

\* impl From<Point> for PointArg
PointArg_from(other) ==
    IF other.tag = "Origin" THEN PointArgOrigin
    ELSE PointArgSpecific(other.slot, hex_encode(other.hash))

\* from_str reporting a bad slot with the message of the bad format
PointArg_from_str_OneMessage(s) ==
    IF Contains(s, ",")
    THEN LET parts == Split(s, ",")
             first == RemoveFirst(parts)
             slot == ParseU64(first.item)
             second == RemoveFirst(first.rest)
         IN  IF slot.tag = "Err" THEN Err("Message", FormatErrorMsg)
             ELSE Ok(PointArgSpecific(slot.val, second.item))
    ELSE IF s = OriginText THEN Ok(PointArgOrigin)
    ELSE Err("Message", FormatErrorMsg)

\* impl FromStr for PointArg
PointArg_from_str(s) ==
    IF Contains(s, ",")
    THEN LET parts == Split(s, ",")
             first == RemoveFirst(parts)
             slot == ParseU64(first.item)
             second == RemoveFirst(first.rest)
         IN  IF slot.tag = "Err" THEN Err("Message", SlotErrorMsg)
             ELSE Ok(PointArgSpecific(slot.val, second.item))
    ELSE IF s = OriginText THEN Ok(PointArgOrigin)
    ELSE Err("Message", FormatErrorMsg)

\* to_string without the separator
to_string_NoSeparator(self) ==
    IF self.tag = "Origin" THEN OriginText
    ELSE FormatU64(self.slot) \o self.hash

\* impl ToString for PointArg
to_string(self) ==
    IF self.tag = "Origin" THEN OriginText
    ELSE FormatU64(self.slot) \o <<",">> \o self.hash

\* ---------------------------------------------------------- MagicArg ----
TestnetText == <<"t", "e", "s", "t", "n", "e", "t">>
MainnetText == <<"m", "a", "i", "n", "n", "e", "t">>

MagicErrorMsg == <<"can't parse magic value">>

\* struct MagicArg(pub u64)
MagicArg(v) == [value |-> v]

\* from_str with the two keywords exchanged
MagicArg_from_str_Swapped(s) ==
    IF s = TestnetText THEN Ok(MagicArg(FromNat(MAINNET_MAGIC)))
    ELSE IF s = MainnetText THEN Ok(MagicArg(FromNat(TESTNET_MAGIC)))
    ELSE LET v == ParseU64(s)
         IN  IF v.tag = "Err" THEN Err("Str", MagicErrorMsg)
             ELSE Ok(MagicArg(v.val))

\* impl FromStr for MagicArg
MagicArg_from_str(s) ==
    IF s = TestnetText THEN Ok(MagicArg(FromNat(TESTNET_MAGIC)))
    ELSE IF s = MainnetText THEN Ok(MagicArg(FromNat(MAINNET_MAGIC)))
    ELSE LET v == ParseU64(s)
         IN  IF v.tag = "Err" THEN Err("Str", MagicErrorMsg)
             ELSE Ok(MagicArg(v.val))

\* impl Default for MagicArg
MagicArg_default == MagicArg(FromNat(MAINNET_MAGIC))

\* ------------------------------------------------- ChainWellKnownInfo ----
ConfigErrorMsg == <<"can't infer well-known chain infro from specified magic">>

\* ChainWellKnownInfo::mainnet
mainnet ==
    [magic |-> FromNat(MAINNET_MAGIC),
     byron_epoch_length |-> 432000,
     byron_slot_length |-> 20,
     byron_known_slot |-> FromNat(0),
     byron_known_time |-> FromNat(1506203091),
     byron_known_hash |-> "f0f7892b5c333cffc4b3c4344de48af4cc63f55e44936196f365a9ef2244134f",
     shelley_epoch_length |-> 432000,
     shelley_slot_length |-> 1,
     shelley_known_slot |-> FromNat(4492800),
     shelley_known_hash |-> "aa83acbf5904c0edfe4d79b3689d3d00fcfc553cf360fd2229b98d464c28e9de",
     shelley_known_time |-> FromNat(1596059091),
     address_hrp |-> "addr",
     adahandle_policy |-> "f0ff48bbb7bbe9d59a40f1ce90e9e9d0ff5002ec48f232b49ca0fb9a"]

\* ChainWellKnownInfo::testnet
testnet ==
    [magic |-> FromNat(TESTNET_MAGIC),
     byron_epoch_length |-> 432000,
     byron_slot_length |-> 20,
     byron_known_slot |-> FromNat(0),
     byron_known_time |-> FromNat(1564010416),
     byron_known_hash |-> "8f8602837f7c6f8b8867dd1cbc1842cf51a27eaed2c70ef48325d00f8efb320f",
     shelley_epoch_length |-> 432000,
     shelley_slot_length |-> 1,
     shelley_known_slot |-> FromNat(1598400),
     shelley_known_hash |-> "02b1c561715da9e540411123a6135ee319b02f60b9a11a603d3305556c04329f",
     shelley_known_time |-> FromNat(1595967616),
     address_hrp |-> "addr_test",
     adahandle_policy |-> "8d18d786e92776c824607fd8e193ec535c79dc61ea2405ddf3b09fe3"]

\* try_from_magic with the two records exchanged
try_from_magic_Swapped(magic) ==
    IF magic = FromNat(MAINNET_MAGIC) THEN Ok(testnet)
    ELSE IF magic = FromNat(TESTNET_MAGIC) THEN Ok(mainnet)
    ELSE Err("ConfigError", ConfigErrorMsg)

\* ChainWellKnownInfo::try_from_magic
try_from_magic(magic) ==
    IF magic = FromNat(MAINNET_MAGIC) THEN Ok(mainnet)
    ELSE IF magic = FromNat(TESTNET_MAGIC) THEN Ok(testnet)
    ELSE Err("ConfigError", ConfigErrorMsg)

\* impl Default for ChainWellKnownInfo
ChainWellKnownInfo_default == mainnet

\* ------------------------------------------------------------ inputs ----
SeqsUpTo(S, n) == UNION {[1..k -> S] : k \in 0..n}

\* characters of the bounded texts: digits, a sign, the separator, a lower
\* and an upper case hex letter, a letter that is no hex digit
Alphabet == {"0", "1", "+", ",", "a", "F", "g"}

U64MaxText == <<"1", "8", "4", "4", "6", "7", "4", "4", "0", "7", "3", "7", "0", "9", "5", "5", "1", "6", "1", "5">>
U64OverText == <<"1", "8", "4", "4", "6", "7", "4", "4", "0", "7", "3", "7", "0", "9", "5", "5", "1", "6", "1", "6">>
ShelleyHashText == <<"a", "a", "8", "3", "a", "c", "b", "f", "5", "9", "0", "4", "c", "0", "e", "d", "f", "e", "4", "d", "7", "9", "b", "3", "6", "8", "9", "d", "3", "d", "0", "0", "f", "c", "f", "c", "5", "5", "3", "c", "f", "3", "6", "0", "f", "d", "2", "2", "2", "9", "b", "9", "8", "d", "4", "6", "4", "c", "2", "8", "e", "9", "d", "e">>
ShelleySlotText == <<"4", "4", "9", "2", "8", "0", "0">>
ShelleyPointText == ShelleySlotText \o <<",">> \o ShelleyHashText
MainnetMagicText == <<"7", "6", "4", "8", "2", "4", "0", "7", "3">>
TestnetMagicText == <<"1", "0", "9", "7", "9", "1", "1", "0", "6", "3">>
Text99999 == <<"9", "9", "9", "9", "9">>
Text12345 == <<"1", "2", "3", "4", "5">>
NotANumberText == <<"n", "o", "t", "a", "n", "u", "m", "b", "e", "r">>

\* the texts of the documented examples and the boundary values of u64
SpecialTexts ==
    {OriginText, TestnetText, MainnetText,
     <<"O", "r", "i", "g", "i", "n">>,
     <<"M", "a", "i", "n", "n", "e", "t">>,
     <<"T", "E", "S", "T", "N", "E", "T">>,
     <<"n", "o", "c", "o", "m", "m", "a", "h", "e", "r", "e">>,
     NotANumberText,
     NotANumberText \o <<",", "d", "e", "a", "d", "b", "e", "e", "f">>,
     OriginText \o <<",", "a", "b">>,
     Text99999, Text12345, MainnetMagicText, TestnetMagicText,
     <<"+">> \o TestnetMagicText, <<"0">> \o MainnetMagicText,
     U64MaxText, U64OverText,
     U64MaxText \o <<",", "a", "b">>, U64OverText \o <<",", "a", "b">>,
     <<"-", "1">>, <<"-", "1", ",", "a", "b">>,
     <<"1", ",", "a", ",", "b">>,
     ShelleyPointText}

Texts == SeqsUpTo(Alphabet, MaxLen) \cup SpecialTexts

\* characters of the bounded magic texts: digits, the signs, a letter
MagicAlphabet == {"0", "1", "+", "-", "m"}

MagicTexts == SeqsUpTo(MagicAlphabet, MaxLen) \cup SpecialTexts

SlotSamples == {U64Zero, FromNat(4492800), <<0, 0, 1, 0>>, U64Max}

\* characters of the hash strings a PointArg is constructed with
HashAlphabet == {"0", "9", "a", "f", "F", "g", ","}

PointArgs ==
    {PointArgOrigin}
    \cup {PointArgSpecific(slot, hash) : slot \in SlotSamples, hash \in SeqsUpTo(HashAlphabet, MaxHashLen)}

ByteSamples == {0, 9, 10, 15, 16, 171, 255}

Points ==
    {PointOrigin}
    \cup {PointSpecific(slot, hash) : slot \in SlotSamples, hash \in SeqsUpTo(ByteSamples, MaxHashBytes)}

MagicSamples ==
    {U64Zero, FromNat(12345), FromNat(99999), FromNat(MAINNET_MAGIC), FromNat(TESTNET_MAGIC),
     FromNat(MAINNET_MAGIC + 1), <<FromNat(MAINNET_MAGIC)[1], FromNat(MAINNET_MAGIC)[2], 1, 0>>, U64Max}

\* ------------------------------------------------------------- state ----
VARIABLES
    text,    \* the chain point text at hand
    arg,     \* the PointArg at hand, or the error of its parsing
    point,   \* the protocol Point at hand, or the error of its conversion
    mtext,   \* the magic text at hand
    magic,   \* the MagicArg at hand, or the error of its parsing
    info,    \* the ChainWellKnownInfo at hand, or the error of its lookup
    log      \* the calls made so far: for each operation, its (argument, result) pairs

vars == <<text, arg, point, mtext, magic, info, log>>

Some(v) == [tag |-> "Some", val |-> v]

Ops ==
    {"PointArg::from_str", "PointArg::to_string", "PointArg::try_into", "PointArg::from",
     "MagicArg::from_str", "MagicArg::default",
     "ChainWellKnownInfo::try_from_magic", "ChainWellKnownInfo::default"}

\* the log with one more call of op, of argument a and result r
Logged(op, a, r) == [log EXCEPT ![op] = @ \cup {[arg |-> a, ret |-> r]}]

\* the number of distinct calls made
CallCount ==
    Cardinality(log["PointArg::from_str"]) + Cardinality(log["PointArg::to_string"])
    + Cardinality(log["PointArg::try_into"]) + Cardinality(log["PointArg::from"])
    + Cardinality(log["MagicArg::from_str"]) + Cardinality(log["MagicArg::default"])
    + Cardinality(log["ChainWellKnownInfo::try_from_magic"])
    + Cardinality(log["ChainWellKnownInfo::default"])

\* the caller starts with one value: a point text, a PointArg, a protocol
\* Point, a magic text, a magic number, or nothing at all
Init ==
    /\ log = [op \in Ops |-> {}]
    /\ \/ /\ text \in {Some(t) : t \in Texts}
          /\ arg = None /\ point = None /\ mtext = None /\ magic = None
       \/ /\ arg \in {Ok(a) : a \in PointArgs}
          /\ text = None /\ point = None /\ mtext = None /\ magic = None
       \/ /\ point \in {Ok(q) : q \in Points}
          /\ text = None /\ arg = None /\ mtext = None /\ magic = None
       \/ /\ mtext \in {Some(t) : t \in MagicTexts}
          /\ text = None /\ arg = None /\ point = None /\ magic = None
       \/ /\ magic \in {Ok(MagicArg(m)) : m \in MagicSamples}
          /\ text = None /\ arg = None /\ point = None /\ mtext = None
       \/ /\ text = None /\ arg = None /\ point = None /\ mtext = None /\ magic = None
    /\ info = None

\* text.parse::<PointArg>()
FromStr ==
    /\ CallCount < MaxSteps
    /\ text.tag = "Some"
    /\ arg' = PointArg_from_str(text.val)
    /\ log' = Logged("PointArg::from_str", text.val, arg')
    /\ UNCHANGED <<text, point, mtext, magic, info>>

\* arg.to_string()
ToString ==
    /\ CallCount < MaxSteps
    /\ arg.tag = "Ok"
    /\ text' = Some(to_string(arg.val))
    /\ log' = Logged("PointArg::to_string", arg.val, text'.val)
    /\ UNCHANGED <<arg, point, mtext, magic, info>>

\* arg.try_into()
TryInto ==
    /\ CallCount < MaxSteps
    /\ arg.tag = "Ok"
    /\ point' = try_into(arg.val)
    /\ log' = Logged("PointArg::try_into", arg.val, point')
    /\ UNCHANGED <<text, arg, mtext, magic, info>>

\* PointArg::from(point)
From ==
    /\ CallCount < MaxSteps
    /\ point.tag = "Ok"
    /\ arg' = Ok(PointArg_from(point.val))
    /\ log' = Logged("PointArg::from", point.val, arg'.val)
    /\ UNCHANGED <<text, point, mtext, magic, info>>

\* mtext.parse::<MagicArg>()
MagicFromStr ==
    /\ CallCount < MaxSteps
    /\ mtext.tag = "Some"
    /\ magic' = MagicArg_from_str(mtext.val)
    /\ log' = Logged("MagicArg::from_str", mtext.val, magic')
    /\ UNCHANGED <<text, arg, point, mtext, info>>

\* MagicArg::default(), for a caller that has no magic yet
MagicDefault ==
    /\ CallCount < MaxSteps
    /\ magic.tag = "None"
    /\ magic' = Ok(MagicArg_default)
    /\ log' = Logged("MagicArg::default", <<>>, magic'.val)
    /\ UNCHANGED <<text, arg, point, mtext, info>>

\* ChainWellKnownInfo::try_from_magic(*magic)
TryFromMagic ==
    /\ CallCount < MaxSteps
    /\ magic.tag = "Ok"
    /\ info' = try_from_magic(magic.val.value)
    /\ log' = Logged("ChainWellKnownInfo::try_from_magic", magic.val.value, info')
    /\ UNCHANGED <<text, arg, point, mtext, magic>>

\* ChainWellKnownInfo::default(), for a caller that has no record yet
InfoDefault ==
    /\ CallCount < MaxSteps
    /\ info.tag = "None"
    /\ info' = Ok(ChainWellKnownInfo_default)
    /\ log' = Logged("ChainWellKnownInfo::default", <<>>, info'.val)
    /\ UNCHANGED <<text, arg, point, mtext, magic>>

Next ==
    \/ FromStr
    \/ ToString
    \/ TryInto
    \/ From
    \/ MagicFromStr
    \/ MagicDefault
    \/ TryFromMagic
    \/ InfoDefault

Spec == Init /\ [][Next]_vars

TypeOK ==
    /\ text.tag \in {"None", "Some"}
    /\ arg.tag \in {"None", "Ok", "Err"}
    /\ point.tag \in {"None", "Ok", "Err"}
    /\ mtext.tag \in {"None", "Some"}
    /\ magic.tag \in {"None", "Ok", "Err"}
    /\ info.tag \in {"None", "Ok", "Err"}
    /\ CallCount <= MaxSteps

\* ------------------------------------------------- reading the log ----
\* the calls of an operation, and the pairs of a call of one operation and a
\* call of another; the second is made on the result of the first when its
\* argument is that result
CallsOf(op) == log[op]
CallPairs(op1, op2) == log[op1] \X log[op2]

\* the text before and after its first comma
FirstComma(s) == CHOOSE k \in DOMAIN s : s[k] = "," /\ \A j \in 1..(k - 1) : s[j] # ","
BeforeFirstComma(s) == SubSeq(s, 1, FirstComma(s) - 1)
AfterFirstComma(s) == SubSeq(s, FirstComma(s) + 1, Len(s))
CommaCount(s) == Cardinality({k \in DOMAIN s : s[k] = ","})

\* the part of the text between its first comma and its second one (or its end)
SecondPart(s) ==
    LET rest == AfterFirstComma(s)
    IN  IF \E k \in DOMAIN rest : rest[k] = "," THEN BeforeFirstComma(rest) ELSE rest

DigitChars == {"0", "1", "2", "3", "4", "5", "6", "7", "8", "9"}
DigitRank(c) ==
    CASE c = "0" -> 0 [] c = "1" -> 1 [] c = "2" -> 2 [] c = "3" -> 3 [] c = "4" -> 4
      [] c = "5" -> 5 [] c = "6" -> 6 [] c = "7" -> 7 [] c = "8" -> 8 [] c = "9" -> 9

Unsigned(s) == IF s # <<>> /\ s[1] = "+" THEN Tail(s) ELSE s

RECURSIVE StripZeros(_)
StripZeros(s) == IF s # <<>> /\ s[1] = "0" THEN StripZeros(Tail(s)) ELSE s

\* the decimal numeral of the text's value: no sign, no leading zeros
Canonical(s) == IF StripZeros(Unsigned(s)) = <<>> THEN <<"0">> ELSE StripZeros(Unsigned(s))

RECURSIVE NumeralLeq(_, _)
\* a <= b for two numerals of the same length
NumeralLeq(a, b) ==
    IF a = <<>> THEN TRUE
    ELSE IF DigitRank(a[1]) # DigitRank(b[1]) THEN DigitRank(a[1]) < DigitRank(b[1])
    ELSE NumeralLeq(Tail(a), Tail(b))

\* the text is an unsigned 64-bit decimal integer: an optional '+', one or
\* more digits, value at most 18446744073709551615
IsU64Text(s) ==
    /\ Unsigned(s) # <<>>
    /\ \A k \in DOMAIN Unsigned(s) : Unsigned(s)[k] \in DigitChars
    /\ \/ Len(Canonical(s)) < 20
       \/ Len(Canonical(s)) = 20 /\ NumeralLeq(Canonical(s), U64MaxText)

LowerHexChars == {"0", "1", "2", "3", "4", "5", "6", "7", "8", "9", "a", "b", "c", "d", "e", "f"}
HexChars == LowerHexChars \cup {"A", "B", "C", "D", "E", "F"}

NibbleOf(c) ==
    CASE c \in DigitChars -> DigitRank(c)
      [] c \in {"a", "A"} -> 10 [] c \in {"b", "B"} -> 11 [] c \in {"c", "C"} -> 12
      [] c \in {"d", "D"} -> 13 [] c \in {"e", "E"} -> 14 [] c \in {"f", "F"} -> 15

IsLowerHex(h) == \A k \in DOMAIN h : h[k] \in LowerHexChars
IsValidHex(h) == Len(h) % 2 = 0 /\ \A k \in DOMAIN h : h[k] \in HexChars
BytesOfHex(h) == [k \in 1..(Len(h) \div 2) |-> NibbleOf(h[2 * k - 1]) * 16 + NibbleOf(h[2 * k])]

\* ------------------------------------------------------------ claims ----

\* C1: PointArg::from_str, on a text with at least one comma, splits on the
\* first comma only: when the part before it is a u64 the result is
\* Specific(slot, the entire remainder after the first comma).
C1_SplitsOnFirstCommaOnly ==
    \A i \in CallsOf("PointArg::from_str") :
        (Contains(i.arg, ",") /\ IsU64Text(BeforeFirstComma(i.arg)))
        => /\ i.ret.tag = "Ok"
           /\ i.ret.val.tag = "Specific"
           /\ FormatU64(i.ret.val.slot) = Canonical(BeforeFirstComma(i.arg))
           /\ i.ret.val.hash = AfterFirstComma(i.arg)

\* C2: formatting Origin, or a Specific whose hash is made of lowercase hex
\* digits (of any length, odd and empty included), and parsing the text
\* gives the value back; "origin" parses to Origin and Origin formats to
\* "origin".
C2_TextRoundTrip ==
    /\ \A p \in CallPairs("PointArg::to_string", "PointArg::from_str") :
        (/\ p[2].arg = p[1].ret
         /\ (p[1].arg.tag = "Specific" => IsLowerHex(p[1].arg.hash)))
        => p[2].ret = Ok(p[1].arg)
    /\ \A i \in CallsOf("PointArg::from_str") :
        i.arg = <<"o", "r", "i", "g", "i", "n">> => i.ret = Ok([tag |-> "Origin"])
    /\ \A i \in CallsOf("PointArg::to_string") :
        i.arg.tag = "Origin" => i.ret = <<"o", "r", "i", "g", "i", "n">>

\* a Specific with the largest slot and a hash of odd length went through
\* to_string and from_str
C2_Witness ==
    \E p \in CallPairs("PointArg::to_string", "PointArg::from_str") :
        /\ p[2].arg = p[1].ret
        /\ p[1].arg.tag = "Specific"
        /\ p[1].arg.slot = <<65535, 65535, 65535, 65535>>
        /\ IsLowerHex(p[1].arg.hash)
        /\ Len(p[1].arg.hash) = 1
        /\ p[2].ret.tag = "Ok"

\* the calls from_str then to_string, the second on the Specific the first returned
ParseThenFormat ==
    {p \in CallPairs("PointArg::from_str", "PointArg::to_string") :
        /\ p[1].ret.tag = "Ok"
        /\ p[1].ret.val.tag = "Specific"
        /\ p[2].arg = p[1].ret.val}

\* C3 as stated: whenever from_str returns a Specific for a text, to_string
\* of that value is the text.
C3_FormatIsLeftInverse ==
    \A p \in ParseThenFormat : p[2].ret = p[1].arg

\* C3 amended: to_string of the parsed value is the canonical numeral of the
\* slot part, a comma, and the part between the first and the second comma;
\* it is the text itself exactly when the slot part is written canonically
\* and the text has one comma only.
C3_FormatOfParsedIsCanonical ==
    \A p \in ParseThenFormat :
        LET t == p[1].arg
        IN  /\ p[2].ret = Canonical(BeforeFirstComma(t)) \o <<",">> \o SecondPart(t)
            /\ (p[2].ret = t)
               <=> (BeforeFirstComma(t) = Canonical(BeforeFirstComma(t)) /\ CommaCount(t) = 1)

\* a text whose hash is no hex came back from from_str and to_string as it was
C3_Witness ==
    \E p \in ParseThenFormat :
        /\ p[1].arg = <<"1", ",", "g">>
        /\ p[2].ret = <<"1", ",", "g">>

\* the calls from then try_into, the second on the PointArg the first returned
FromThenTryInto ==
    {p \in CallPairs("PointArg::from", "PointArg::try_into") : p[2].arg = p[1].ret}

\* C4: PointArg::from never fails and its hash is made of lowercase hex
\* digits only; try_into of its result succeeds and is the Point it was
\* given, for Origin and for Specific with any slot and any bytes, none
\* included.
C4_ProtocolRoundTrip ==
    /\ \A i \in CallsOf("PointArg::from") :
        /\ i.ret.tag = i.arg.tag
        /\ i.ret.tag = "Specific"
           => /\ i.ret.slot = i.arg.slot
              /\ IsLowerHex(i.ret.hash)
              /\ Len(i.ret.hash) = 2 * Len(i.arg.hash)
    /\ \A p \in FromThenTryInto : p[2].ret = Ok(p[1].arg)

\* a Point with bytes above 9 in either nibble went through from and try_into
C4_Witness ==
    \E p \in FromThenTryInto :
        /\ p[1].arg.tag = "Specific"
        /\ p[1].arg.hash = <<171, 10>>
        /\ p[2].ret.tag = "Ok"

\* the calls from_str then try_into, the second on the PointArg the first returned
ParseThenTryInto ==
    {p \in CallPairs("PointArg::from_str", "PointArg::try_into") :
        /\ p[1].ret.tag = "Ok"
        /\ p[2].arg = p[1].ret.val}

\* C5: the hash is validated by try_into, not by from_str.  from_str of a
\* text with a comma fails only for its slot part; try_into of a Specific
\* fails with "can't decode point hash hex value" exactly when the hash has
\* odd length or a character that is no hex digit, and otherwise returns
\* the slot unchanged with the decoded bytes; "S," parses to Specific(S, "")
\* and converts to a Point with no bytes.
C5_HashValidationDeferred ==
    /\ \A i \in CallsOf("PointArg::from_str") :
        Contains(i.arg, ",")
        => (i.ret.tag = "Err" <=> ~IsU64Text(BeforeFirstComma(i.arg)))
    /\ \A i \in CallsOf("PointArg::try_into") :
        i.arg.tag = "Specific"
        => IF IsValidHex(i.arg.hash)
           THEN i.ret = Ok([tag |-> "Specific", slot |-> i.arg.slot,
                                 hash |-> BytesOfHex(i.arg.hash)])
           ELSE i.ret = [tag |-> "Err", kind |-> "Message",
                              msg |-> <<"can't decode point hash hex value">>]
    /\ \A p \in ParseThenTryInto :
        (Contains(p[1].arg, ",") /\ AfterFirstComma(p[1].arg) = <<>>)
        => /\ p[1].ret.val.hash = <<>>
           /\ p[2].ret = Ok([tag |-> "Specific", slot |-> p[1].ret.val.slot, hash |-> <<>>])

\* "1," was parsed and converted
C5_Witness ==
    \E p \in ParseThenTryInto :
        /\ p[1].arg = <<"1", ",">>
        /\ p[2].ret.tag = "Ok"

PointClassified(formatMsg) ==
    \A i \in CallsOf("PointArg::from_str") :
        LET t == i.arg
        IN  IF Contains(t, ",")
            THEN IF IsU64Text(BeforeFirstComma(t))
                 THEN i.ret.tag = "Ok" /\ i.ret.val.tag = "Specific"
                 ELSE i.ret = [tag |-> "Err", kind |-> "Message",
                                    msg |-> <<"can't parse slot number">>]
            ELSE IF t = <<"o", "r", "i", "g", "i", "n">>
                 THEN i.ret = Ok([tag |-> "Origin"])
                 ELSE i.ret = [tag |-> "Err", kind |-> "Message", msg |-> formatMsg]

\* C6 as stated: from_str gives each text one outcome: "can't parse slot
\* number" for a comma after anything but a u64, Origin for "origin", and
\* for any other text without a comma the message
\* "Can't parse chain point value, expecting slot,hex-hash format".
C6_ParseClassifies ==
    PointClassified(<<"Can't parse chain point value, expecting slot,hex-hash format">>)

\* C6 amended: the same, the last message quoting slot,hex-hash between two
\* grave accents.
C6_ParseClassifiesQuoted ==
    PointClassified(<<"Can't parse chain point value, expecting ", "slot,hex-hash", " format">>)

\* "nocommahere" was refused
C6_Witness ==
    \E i \in CallsOf("PointArg::from_str") :
        /\ i.arg = <<"n", "o", "c", "o", "m", "m", "a", "h", "e", "r", "e">>
        /\ i.ret.tag = "Err"

TestnetMagicValue == <<51991, 16752, 0, 0>>   \* 1097911063 = 16752 * 65536 + 51991
MainnetMagicValue == <<18953, 11670, 0, 0>>   \* 764824073 = 11670 * 65536 + 18953

IsKeyword(t) == t \in {<<"t", "e", "s", "t", "n", "e", "t">>, <<"m", "a", "i", "n", "n", "e", "t">>}

\* what MagicArg::from_str does with a text that is no keyword, and with "99999"
MagicNumeralsParsed ==
    \A i \in CallsOf("MagicArg::from_str") :
        LET t == i.arg
        IN  /\ ~IsKeyword(t)
               => IF IsU64Text(t)
                  THEN i.ret.tag = "Ok" /\ FormatU64(i.ret.val.value) = Canonical(t)
                  ELSE i.ret = [tag |-> "Err", kind |-> "Str", msg |-> <<"can't parse magic value">>]
            /\ t = <<"9", "9", "9", "9", "9">> => i.ret = Ok([value |-> <<34463, 1, 0, 0>>])

\* C7 as stated: MagicArg::from_str returns the testnet magic iff the text
\* is exactly "testnet" and the mainnet magic iff it is exactly "mainnet";
\* any other text gives its value as a u64 numeral, or "can't parse magic
\* value" when it is none.
C7_MagicParse ==
    /\ \A i \in CallsOf("MagicArg::from_str") :
        /\ i.ret = Ok([value |-> TestnetMagicValue]) <=> i.arg = <<"t", "e", "s", "t", "n", "e", "t">>
        /\ i.ret = Ok([value |-> MainnetMagicValue]) <=> i.arg = <<"m", "a", "i", "n", "n", "e", "t">>
    /\ MagicNumeralsParsed

\* C7 amended: "testnet" gives the testnet magic and "mainnet" the mainnet
\* magic; any other text gives its value as a u64 numeral, which is one of
\* the two magics exactly when the text is a numeral of that magic, or
\* "can't parse magic value" when it is no u64 numeral.
C7_MagicParseKeywordOrNumeral ==
    /\ \A i \in CallsOf("MagicArg::from_str") :
        /\ i.ret = Ok([value |-> TestnetMagicValue])
           <=> \/ i.arg = <<"t", "e", "s", "t", "n", "e", "t">>
               \/ IsU64Text(i.arg) /\ Canonical(i.arg) = <<"1", "0", "9", "7", "9", "1", "1", "0", "6", "3">>
        /\ i.ret = Ok([value |-> MainnetMagicValue])
           <=> \/ i.arg = <<"m", "a", "i", "n", "n", "e", "t">>
               \/ IsU64Text(i.arg) /\ Canonical(i.arg) = <<"7", "6", "4", "8", "2", "4", "0", "7", "3">>
    /\ MagicNumeralsParsed

\* "testnet" was parsed to the testnet magic
C7_Witness ==
    \E i \in CallsOf("MagicArg::from_str") :
        /\ i.arg = <<"t", "e", "s", "t", "n", "e", "t">>
        /\ i.ret = Ok([value |-> TestnetMagicValue])

\* C8: try_from_magic returns the mainnet record iff the magic is the mainnet
\* magic, the testnet record iff it is the testnet magic, and for any other
\* magic the ConfigError "can't infer well-known chain info from specified
\* magic", with no record.
C8_TryFromMagic ==
    \A i \in CallsOf("ChainWellKnownInfo::try_from_magic") :
        /\ (i.ret.tag = "Ok" /\ i.ret.val.address_hrp = "addr")
           <=> i.arg = MainnetMagicValue
        /\ (i.ret.tag = "Ok" /\ i.ret.val.address_hrp = "addr_test")
           <=> i.arg = TestnetMagicValue
        /\ i.arg \notin {MainnetMagicValue, TestnetMagicValue}
           => i.ret = [tag |-> "Err", kind |-> "ConfigError",
                            msg |-> <<"can't infer well-known chain info from specified magic">>]

ShelleyParsedAndConverted(hashBytes) ==
    \A p \in ParseThenTryInto :
        p[1].arg = ShelleyPointText
        => /\ p[1].ret.val = [tag |-> "Specific", slot |-> <<36352, 68, 0, 0>>, hash |-> ShelleyHashText]
           /\ p[2].ret.tag = "Ok"
           /\ p[2].ret.val.tag = "Specific"
           /\ p[2].ret.val.slot = <<36352, 68, 0, 0>>   \* 4492800 = 68 * 65536 + 36352
           /\ Len(p[2].ret.val.hash) = hashBytes

\* C9 as stated: the text of the Shelley point, slot 4492800 and its hash,
\* parses to Specific(4492800, the hash) and converts to a Point with that
\* slot and a hash of 33 bytes.
C9_ShelleyPoint33Bytes == ShelleyParsedAndConverted(33)

\* C9 amended: the same, the hash of the Point being 32 bytes long.
C9_ShelleyPoint32Bytes == ShelleyParsedAndConverted(32)

\* the text of the Shelley point was parsed and converted
C9_Witness ==
    \E p \in ParseThenTryInto :
        /\ p[1].arg = ShelleyPointText
        /\ p[2].ret.tag = "Ok"

\* C10: a record try_from_magic returns has the magic it was asked for; so
\* a magic text parsed and then looked up gives a record with the parsed
\* magic, "testnet" the one whose address_hrp is "addr_test"; and the record
\* of the default magic is the default record.
C10_MagicPipelineConsistent ==
    /\ \A i \in CallsOf("ChainWellKnownInfo::try_from_magic") :
        i.ret.tag = "Ok" => i.ret.val.magic = i.arg
    /\ \A p \in CallPairs("MagicArg::from_str", "ChainWellKnownInfo::try_from_magic") :
        (/\ p[1].ret.tag = "Ok"
         /\ p[2].arg = p[1].ret.val.value)
        => /\ p[2].ret.tag = "Ok" => p[2].ret.val.magic = p[1].ret.val.value
           /\ p[1].arg = <<"t", "e", "s", "t", "n", "e", "t">>
              => p[2].ret.tag = "Ok" /\ p[2].ret.val.address_hrp = "addr_test"
    /\ \A p \in CallPairs("MagicArg::default", "ChainWellKnownInfo::try_from_magic"),
          k \in CallsOf("ChainWellKnownInfo::default") :
        p[2].arg = p[1].ret.value => p[2].ret = Ok(k.ret)

\* "testnet" was parsed and its record looked up
C10_Witness ==
    \E p \in CallPairs("MagicArg::from_str", "ChainWellKnownInfo::try_from_magic") :
        /\ p[1].arg = <<"t", "e", "s", "t", "n", "e", "t">>
        /\ p[1].ret.tag = "Ok"
        /\ p[2].arg = p[1].ret.val.value
        /\ p[2].ret.tag = "Ok"

====
